---------------------------- MODULE Spec2Model ----------------------------
(***************************************************************************)
(* HeadWobbler (src/src/elprofessor/audio/head_wobbler.py): the audio-     *)
(* driven head movement scheduler.  One producer calls feed(), one control *)
(* thread calls start(), stop(), reset() and set_robot_speaking(), and     *)
(* every start() spawns a dispatch thread running working_loop().          *)
(*                                                                         *)
(* Time is the monotonic clock in ticks of 20 ms.  Every `with             *)
(* self._state_lock:` block is one atomic step; the local computation that *)
(* follows a block (it reads no shared field) is folded into that step.    *)
(* An offset record is reduced to max(|roll|,|pitch|,|yaw|) in units of    *)
(* 0.001 rad, the only thing the loop looks at.                            *)
(***************************************************************************)
EXTENDS Integers, Sequences, FiniteSets

\* ---------------------------------------------------------------- bounds
MaxTime == 8
MaxFeeds == 1
MaxResets == 1
MaxBatch == 3
MaxThreads == 2

\* ------------------------------------------------------------- constants
\* MOVEMENT_LATENCY_S = 0.08 s, in ticks of 20 ms
MOVEMENT_LATENCY == 4
\* hop_dt = HOP_MS / 1000.0: the engine's hop, in ticks of 20 ms
HOP_DT == 2
\* the deadband of line 403, 0.001 rad, in units of 0.001 rad
DEADBAND == 1
\* Optional[float] = None
NoTs == -1
\* self._thread = None
NoThread == 0

Threads == 1..MaxThreads

\* The lock-level view: the dispatch thread, the producer calling feed() and
\* the control thread calling start(), stop(), reset(), set_robot_speaking().
Procs == {"loop", "feed", "ctl"}
\* self._state_lock, self._sway_lock, self._base_pose_lock
Locks == {"state", "sway", "pose"}
Magnitudes == {0, 1, 2}

\* SwayRollRT.feed(pcm, sr): an ordered sequence of offset records, one per
\* hop the chunk completes (possibly none).  The model fixes the length when
\* feed returns and draws each record's magnitude when line 403 looks at it.
SwayLengths == 0..MaxBatch

Min(a, b) == IF a < b THEN a ELSE b

VARIABLES
    now,              \* time.monotonic()
    generation,       \* self._generation
    base_ts,          \* self._base_ts
    hops_done,        \* self._hops_done
    robot_speaking,   \* self._robot_speaking
    audio_queue,      \* self.audio_queue: the chunks not yet popped
    unfinished,       \* audio_queue.unfinished_tasks
    stop_event,       \* self._stop_event
    thread,           \* self._thread
    base_head_pose,   \* self._base_head_pose: captured or not
    sway_lock,        \* self._sway_lock: its holder
    loop,             \* the dispatch threads: position and locals of working_loop
    feeder,           \* the producer inside feed()
    ctl,              \* the control thread: the call it is in
    nfeeds,           \* feed() calls so far
    nstarts,          \* start() calls so far
    life,             \* history: "new", "running" since start(), "stopped" once stop() returned
    last_cmd,         \* history: the last command the actuator received
    last_disp,        \* history: stamp and target of the last offset dispatched, stamps of all
    fresh,            \* history: no chunk passed the staleness check in this generation yet
    restore_sent,     \* history: the last stop() or reset() to return commanded the base pose
    adapter,          \* the last call of _apply_offsets: the robot it met and what it did
    at,               \* the statement each thread of the lock-level view is at
    held,             \* the holder of each lock in the lock-level view
    conversation_speaking  \* ConversationTool._robot_speaking, the application's own flag

vars == <<now, generation, base_ts, hops_done, robot_speaking, audio_queue,
          unfinished, stop_event, thread, base_head_pose, sway_lock, loop,
          feeder, ctl, nfeeds, nstarts, life, last_cmd, last_disp,
          fresh, restore_sent, adapter, at, held, conversation_speaking>>

shared == <<generation, base_ts, hops_done, robot_speaking>>
history == <<last_cmd, last_disp, fresh, restore_sent>>
callers == <<feeder, ctl, nfeeds, nstarts, life>>
lifecycle == <<stop_event, thread, base_head_pose>>
locking == <<at, held>>
around == <<locking, conversation_speaking>>

\* ---------------------------------------------------- _apply_offsets
\* The robot as _apply_offsets meets it, one field per tier:
\*   present  self._reachy is not None (line 153)
\*   compose  tier 1, lines 161-188: "absent" without the compose utilities or
\*            set_target; "raises" when create_head_pose, compose_world_offset
\*            or set_target raises (a failing get_current_head_pose is replaced
\*            by the neutral pose, lines 163-167)
\*   goto     tier 2, lines 191-236: "absent" without get_current_head_pose or
\*            goto_head_pose; "bails" at the return of line 229
\*   joints   tier 3, lines 239-250: "absent" without a head attribute;
\*            "nonecks" when the head lacks a neck joint
\*   base     lines 251-300, reached without a head attribute: "none" when no
\*            base pose can be had (lines 257-267), "nomethod" when the robot
\*            has neither goto_head_pose nor set_head_pose
Robots ==
    [present : BOOLEAN,
     compose : {"absent", "ok", "raises"},
     goto    : {"absent", "ok", "raises", "bails"},
     joints  : {"absent", "nonecks", "ok", "raises"},
     base    : {"none", "nomethod", "ok", "raises"}]

NoRobot == [present |-> FALSE, compose |-> "absent", goto |-> "absent",
            joints |-> "absent", base |-> "none"]

NoCall == [robot |-> NoRobot, tried |-> <<>>, result |-> "none"]

Called(rb, tiers, res) == [robot |-> rb, tried |-> tiers, result |-> res]

\* lines 238-300, after tier 2: the joint writes, or without a head the base
\* pose fallback; whatever raises here is caught at line 302.
LastTiers(rb, tiers) ==
    IF rb.joints = "ok" THEN Called(rb, Append(tiers, 3), "served")
    ELSE IF rb.joints = "raises" THEN Called(rb, Append(tiers, 3), "caught")
    ELSE IF rb.joints = "nonecks" THEN Called(rb, tiers, "noop")
    ELSE IF rb.base = "ok" THEN Called(rb, Append(tiers, 4), "served")
    ELSE IF rb.base = "raises" THEN Called(rb, Append(tiers, 4), "caught")
    ELSE Called(rb, tiers, "noop")

\* lines 190-236: tier 2 has a try of its own, a failure goes on to the rest.
GotoTier(rb, tiers) ==
    IF rb.goto = "absent" THEN LastTiers(rb, tiers)
    ELSE IF rb.goto = "ok" THEN Called(rb, Append(tiers, 2), "served")
    ELSE IF rb.goto = "bails" THEN Called(rb, Append(tiers, 2), "noop")
    ELSE LastTiers(rb, Append(tiers, 2))

\* An adapter without the outer except clause of line 302.
ApplyOffsetsUnguarded(rb) ==
    IF ~rb.present THEN Called(rb, <<>>, "noop")
    ELSE IF rb.compose = "ok" THEN Called(rb, <<1>>, "served")
    ELSE IF rb.compose = "raises" THEN Called(rb, <<1>>, "raised")
    ELSE GotoTier(rb, <<>>)

\* lines 146-305, _apply_offsets(offsets): the tiers it attempts, in order,
\* and how the call ends: "served" by a tier, "noop" when none is available,
\* "caught" when the outer except clause of line 302 ends the attempt,
\* "raised" if an exception left the call.  Tier 1 has no try of its own: when
\* it raises, lines 302-305 are the next thing to run.
ApplyOffsets(rb) ==
    IF ~rb.present THEN Called(rb, <<>>, "noop")
    ELSE IF rb.compose = "ok" THEN Called(rb, <<1>>, "served")
    ELSE IF rb.compose = "raises" THEN Called(rb, <<1>>, "caught")
    ELSE GotoTier(rb, <<>>)

\* The ways a call of _apply_offsets can end, over all robots.
Outcomes == {ApplyOffsets(rb).result : rb \in Robots}

\* A thread that holds no chunk: before its start(), between two chunks and
\* after its exit.  Beside the locals of working_loop it keeps the history of
\* the batch: lag0, how late the batch was at its first record; skips, why
\* the chunk or records of it were not applied; sent, the targets of those
\* that were;
\* stale, how many of those were applied after the generation had moved on;
\* fault, whether a call of _apply_offsets for it ended without a tier serving.
NoLoop(p) ==
    [pc |-> p, chunk_generation |-> 0, nresults |-> 0, i |-> 0,
     target |-> 0, drop |-> 0, wake |-> 0, r |-> 0,
     lag0 |-> 0, skips |-> {}, sent |-> <<>>, stale |-> 0, fault |-> FALSE]

Terminated(t) == loop[t].pc \in {"exited", "crashed"}
Alive(t) == loop[t].pc \notin {"unborn", "exited", "crashed"}

\* HeadWobbler.__init__
Init ==
    /\ now = 0
    /\ generation = 0
    /\ base_ts = NoTs
    /\ hops_done = 0
    /\ robot_speaking = FALSE
    /\ audio_queue = <<>>
    /\ unfinished = 0
    /\ stop_event = FALSE
    /\ thread = NoThread
    /\ base_head_pose = FALSE
    /\ sway_lock = "free"
    /\ loop = [t \in Threads |-> NoLoop("unborn")]
    /\ feeder = [pc |-> "idle", generation |-> 0]
    /\ ctl = "idle"
    /\ nfeeds = 0
    /\ nstarts = 0
    /\ life = "new"
    /\ last_cmd = "none"
    /\ last_disp = [generation |-> NoTs, target |-> 0, gens |-> {}]
    /\ fresh = TRUE
    /\ restore_sent = FALSE
    /\ adapter = NoCall
    /\ at = [p \in Procs |-> IF p = "loop" THEN "unborn" ELSE "idle"]
    /\ held = [l \in Locks |-> "free"]
    /\ conversation_speaking = FALSE

\* The monotonic clock advances; no thread is ever guaranteed to run before it does.
Tick ==
    /\ now < MaxTime
    /\ now' = now + 1
    /\ UNCHANGED <<shared, audio_queue, unfinished, lifecycle, sway_lock, loop,
                   callers, history, adapter, around>>


\* ------------------------------------------------------- working_loop
\* line 313, `while not self._stop_event.is_set()`: the loop ends.
Exit(t) ==
    /\ loop[t].pc = "loop"
    /\ stop_event
    /\ loop' = [loop EXCEPT ![t] = NoLoop("exited")]
    /\ UNCHANGED <<now, adapter, around, shared, audio_queue, unfinished, lifecycle, sway_lock,
                   callers, history>>

\* lines 316-323, queue.Empty: time.sleep(MOVEMENT_LATENCY_S), continue.
PollEmpty(t) ==
    /\ loop[t].pc = "loop"
    /\ ~stop_event
    /\ audio_queue = <<>>
    /\ loop' = [loop EXCEPT ![t] = [@ EXCEPT !.pc = "idle",
                                             !.wake = now + MOVEMENT_LATENCY]]
    /\ UNCHANGED <<now, adapter, around, shared, audio_queue, unfinished, lifecycle, sway_lock,
                   callers, history>>

\* line 322: the sleep returns, no earlier than asked.
PollWake(t) ==
    /\ loop[t].pc = "idle"
    /\ now >= loop[t].wake
    /\ loop' = [loop EXCEPT ![t] = [@ EXCEPT !.pc = "loop", !.wake = 0]]
    /\ UNCHANGED <<now, adapter, around, shared, audio_queue, unfinished, lifecycle, sway_lock,
                   callers, history>>

\* A loop that takes every chunk, whatever its stamp.
PopUnchecked(t) ==
    /\ loop[t].pc = "loop"
    /\ ~stop_event
    /\ audio_queue # <<>>
    /\ audio_queue' = Tail(audio_queue)
    /\ loop' = [loop EXCEPT ![t] =
                   [@ EXCEPT !.pc = "anchor",
                             !.chunk_generation = Head(audio_queue)]]
    /\ fresh' = (fresh /\ Head(audio_queue) # generation)
    /\ UNCHANGED <<now, adapter, around, shared, unfinished, lifecycle, sway_lock,
                   callers, last_cmd, last_disp, restore_sent>>

\* lines 316-329: get_nowait() returns the oldest chunk, and the staleness
\* check sends a stale chunk straight to the finally clause.
Pop(t) ==
    /\ loop[t].pc = "loop"
    /\ ~stop_event
    /\ audio_queue # <<>>
    /\ audio_queue' = Tail(audio_queue)
    /\ loop' = [loop EXCEPT ![t] =
                   [@ EXCEPT !.pc = IF Head(audio_queue) # generation
                                    THEN "ack" ELSE "anchor",
                             !.chunk_generation = Head(audio_queue),
                             !.skips = IF Head(audio_queue) # generation
                                       THEN {"stale"} ELSE @]]
    /\ fresh' = (fresh /\ Head(audio_queue) # generation)
    /\ UNCHANGED <<now, adapter, around, shared, unfinished, lifecycle, sway_lock, callers,
                   last_cmd, last_disp, restore_sent>>

\* lines 331-334: the first chunk anchors the schedule.  The unlocked test and
\* the locked one act as one test made at the locked one.
Anchor(t) ==
    /\ loop[t].pc = "anchor"
    /\ base_ts' = IF base_ts = NoTs THEN now ELSE base_ts
    /\ loop' = [loop EXCEPT ![t] = [@ EXCEPT !.pc = "feed"]]
    /\ UNCHANGED <<now, adapter, around, generation, hops_done, robot_speaking, audio_queue,
                   unfinished, lifecycle, sway_lock, callers, history>>

\* line 337: `with self._sway_lock:` is entered.
SwayAcquire(t) ==
    /\ loop[t].pc = "feed"
    /\ sway_lock = "free"
    /\ sway_lock' = "loop"
    /\ loop' = [loop EXCEPT ![t] = [@ EXCEPT !.pc = "feeding"]]
    /\ UNCHANGED <<now, adapter, around, shared, audio_queue, unfinished, lifecycle, callers,
                   history>>

\* lines 338-342: sway.feed returns the batch, the lock is released, i = 0.
SwayFeedReturn(t) ==
    /\ loop[t].pc = "feeding"
    /\ \E n \in SwayLengths :
          loop' = [loop EXCEPT ![t] = [@ EXCEPT !.pc = "read", !.nresults = n]]
    /\ sway_lock' = "free"
    /\ UNCHANGED <<now, adapter, around, shared, audio_queue, unfinished, lifecycle, callers,
                   history>>

\* line 338 raises: the with block releases the lock, the finally clause of
\* line 411 acknowledges the chunk, and, working_loop having no except clause,
\* the exception leaves the while loop and ends the thread.
SwayFeedRaise(t) ==
    /\ loop[t].pc = "feeding"
    /\ sway_lock' = "free"
    /\ unfinished' = unfinished - 1
    /\ loop' = [loop EXCEPT ![t] = NoLoop("crashed")]
    /\ UNCHANGED <<now, adapter, around, shared, audio_queue, lifecycle, callers, history>>

\* A schedule that runs backwards.
TargetBackwards(b, h) == b + MOVEMENT_LATENCY - h * HOP_DT

\* line 357
Target(b, h) == b + MOVEMENT_LATENCY + h * HOP_DT

\* line 360
Lagging(clock, tg) == clock - tg >= HOP_DT

\* line 361
LagHops(clock, tg) == (clock - tg) \div HOP_DT

\* A lag policy that does not keep the last record of the batch.
DropAll(clock, tg, n, i) == Min(LagHops(clock, tg), n - i)

\* line 362
Drop(clock, tg, n, i) == Min(LagHops(clock, tg), n - i - 1)

\* lines 343-370: the while test, the locked read of generation, base_ts and
\* hops_done, then target, now and the choice between dropping lagged
\* records, sleeping until the target and going on to dispatch.
ReadState(t) ==
    /\ loop[t].pc = "read"
    /\ IF loop[t].i >= loop[t].nresults \/ generation # loop[t].chunk_generation
       THEN /\ loop' = [loop EXCEPT ![t] = [@ EXCEPT !.pc = "ack"]]
            /\ UNCHANGED base_ts
       ELSE LET b == IF base_ts = NoTs THEN now ELSE base_ts
                tg == Target(b, hops_done)
                d == IF Lagging(now, tg)
                     THEN Drop(now, tg, loop[t].nresults, loop[t].i)
                     ELSE 0
            IN  /\ base_ts' = b
                /\ loop' = [loop EXCEPT ![t] =
                       [@ EXCEPT !.target = tg,
                                 !.lag0 = IF loop[t].i = 0 /\ now > tg
                                          THEN now - tg ELSE @,
                                 !.drop = d, !.r = 0,
                                 !.pc = IF d > 0 THEN "drop"
                                        ELSE IF tg > now THEN "sleep"
                                        ELSE "check"]]
    /\ UNCHANGED <<now, adapter, around, generation, hops_done, robot_speaking, audio_queue,
                   unfinished, lifecycle, sway_lock, callers, history>>

\* lines 364-368: the lagged records are counted as done, not applied.
DropLagged(t) ==
    /\ loop[t].pc = "drop"
    /\ hops_done' = hops_done + loop[t].drop
    /\ loop' = [loop EXCEPT ![t] = [@ EXCEPT !.pc = "read",
                                             !.i = @ + loop[t].drop,
                                             !.drop = 0, !.target = 0,
                                             !.skips = @ \cup {"lag"}]]
    /\ UNCHANGED <<now, adapter, around, generation, base_ts, robot_speaking, audio_queue,
                   unfinished, lifecycle, sway_lock, callers, history>>

\* A sleep that may return before the target.
SleepWakeEarly(t) ==
    /\ loop[t].pc = "sleep"
    /\ loop' = [loop EXCEPT ![t] =
                   [@ EXCEPT !.pc = IF generation # loop[t].chunk_generation
                                    THEN "ack" ELSE "check"]]
    /\ UNCHANGED <<now, adapter, around, shared, audio_queue, unfinished, lifecycle, sway_lock,
                   callers, history>>

\* lines 371-374: the sleep returns, no earlier than the target, and the
\* generation is checked again.
SleepWake(t) ==
    /\ loop[t].pc = "sleep"
    /\ now >= loop[t].target
    /\ loop' = [loop EXCEPT ![t] =
                   [@ EXCEPT !.pc = IF generation # loop[t].chunk_generation
                                    THEN "ack" ELSE "check"]]
    /\ UNCHANGED <<now, adapter, around, shared, audio_queue, unfinished, lifecycle, sway_lock,
                   callers, history>>

\* A loop that does not look at robot_speaking.
CheckIgnoresSpeaking(t) ==
    /\ loop[t].pc = "check"
    /\ \E r \in Magnitudes :
          loop' = [loop EXCEPT ![t] =
                      [@ EXCEPT !.r = r,
                                !.pc = IF generation # loop[t].chunk_generation THEN "ack"
                                       ELSE "apply"]]
    /\ UNCHANGED <<now, adapter, around, shared, audio_queue, unfinished, lifecycle, sway_lock,
                   callers, history>>

\* A loop whose last look at the shared state does not compare generations.
CheckNoGeneration(t) ==
    /\ loop[t].pc = "check"
    /\ \E r \in Magnitudes :
          loop' = [loop EXCEPT ![t] =
                      [@ EXCEPT !.r = r,
                                !.pc = IF ~robot_speaking THEN "suppress"
                                       ELSE "apply"]]
    /\ UNCHANGED <<now, adapter, around, shared, audio_queue, unfinished, lifecycle, sway_lock,
                   callers, history>>

\* lines 376-393: r = results[i], the last generation check and the read of
\* robot_speaking.
CheckSpeaking(t) ==
    /\ loop[t].pc = "check"
    /\ \E r \in Magnitudes :
          loop' = [loop EXCEPT ![t] =
                      [@ EXCEPT !.r = r,
                                !.pc = IF generation # loop[t].chunk_generation THEN "ack"
                                       ELSE IF ~robot_speaking THEN "suppress"
                                       ELSE "apply"]]
    /\ UNCHANGED <<now, adapter, around, shared, audio_queue, unfinished, lifecycle, sway_lock,
                   callers, history>>

\* A loop that skips a suppressed record without counting it.
SuppressUncounted(t) ==
    /\ loop[t].pc = "suppress"
    /\ loop' = [loop EXCEPT ![t] = [@ EXCEPT !.pc = "read", !.i = @ + 1,
                                             !.target = 0, !.r = 0,
                                             !.skips = @ \cup {"mute"}]]
    /\ UNCHANGED <<now, adapter, around, shared, audio_queue,
                   unfinished, lifecycle, sway_lock, callers, history>>

\* lines 397-400: the robot is not speaking, the record is counted and skipped.
Suppress(t) ==
    /\ loop[t].pc = "suppress"
    /\ hops_done' = hops_done + 1
    /\ loop' = [loop EXCEPT ![t] = [@ EXCEPT !.pc = "read", !.i = @ + 1,
                                             !.target = 0, !.r = 0,
                                             !.skips = @ \cup {"mute"}]]
    /\ UNCHANGED <<now, adapter, around, generation, base_ts, robot_speaking, audio_queue,
                   unfinished, lifecycle, sway_lock, callers, history>>

\* A loop without deadband.
NoDeadband(r) == TRUE

\* line 403
Significant(r) == r > DEADBAND

\* lines 403-406: a record above the deadband goes to _apply_offsets.
Apply(t) ==
    /\ loop[t].pc = "apply"
    /\ IF Significant(loop[t].r)
       THEN /\ last_cmd' = "offset"
            /\ last_disp' = [generation |-> loop[t].chunk_generation,
                             target |-> loop[t].target,
                             gens |-> last_disp.gens \cup {loop[t].chunk_generation}]
            /\ loop' = [loop EXCEPT ![t] =
                           [@ EXCEPT !.pc = "count",
                                     !.sent = Append(@, loop[t].target),
                                     !.stale = IF loop[t].chunk_generation = generation
                                               THEN @ ELSE @ + 1]]
       ELSE /\ loop' = [loop EXCEPT ![t] =
                           [@ EXCEPT !.pc = "count",
                                     !.skips = @ \cup {"deadband"}]]
            /\ UNCHANGED <<last_cmd, last_disp>>
    /\ UNCHANGED <<now, adapter, around, shared, audio_queue, unfinished, lifecycle, sway_lock,
                   callers, fresh, restore_sent>>

\* lines 403-406 with the robot in any condition: _apply_offsets runs its
\* tiers; were an exception to leave it, the finally clause of line 411 would
\* acknowledge the chunk and the thread would end.
ApplyOn(t) ==
    /\ loop[t].pc = "apply"
    /\ IF Significant(loop[t].r)
       THEN \E result \in Outcomes :
                  /\ last_cmd' = IF result = "served" THEN "offset" ELSE last_cmd
                  /\ last_disp' = [generation |-> loop[t].chunk_generation,
                                   target |-> loop[t].target,
                                   gens |-> last_disp.gens \cup {loop[t].chunk_generation}]
                  /\ IF result = "raised"
                     THEN /\ loop' = [loop EXCEPT ![t] = NoLoop("crashed")]
                          /\ unfinished' = unfinished - 1
                     ELSE /\ loop' = [loop EXCEPT ![t] =
                                 [@ EXCEPT !.pc = "count",
                                           !.sent = Append(@, loop[t].target),
                                           !.stale = IF loop[t].chunk_generation = generation
                                                     THEN @ ELSE @ + 1,
                                           !.fault = @ \/ result # "served"]]
                          /\ UNCHANGED unfinished
       ELSE /\ loop' = [loop EXCEPT ![t] =
                           [@ EXCEPT !.pc = "count",
                                     !.skips = @ \cup {"deadband"}]]
            /\ UNCHANGED <<last_cmd, last_disp, unfinished>>
    /\ UNCHANGED <<now, adapter, around, shared, audio_queue, lifecycle, sway_lock,
                   callers, fresh, restore_sent>>

\* lines 408-410
Count(t) ==
    /\ loop[t].pc = "count"
    /\ hops_done' = hops_done + 1
    /\ loop' = [loop EXCEPT ![t] = [@ EXCEPT !.pc = "read", !.i = @ + 1,
                                             !.target = 0, !.r = 0]]
    /\ UNCHANGED <<now, adapter, around, generation, base_ts, robot_speaking, audio_queue,
                   unfinished, lifecycle, sway_lock, callers, history>>

\* A loop without the finally clause: the chunk is never acknowledged.
AckForgets(t) ==
    /\ loop[t].pc = "ack"
    /\ loop' = [loop EXCEPT ![t] = NoLoop("loop")]
    /\ UNCHANGED <<now, adapter, around, shared, audio_queue, unfinished, lifecycle,
                   sway_lock, callers, history>>

\* lines 411-412: queue_ref.task_done(), and back to the while test.
Ack(t) ==
    /\ loop[t].pc = "ack"
    /\ unfinished' = unfinished - 1
    /\ loop' = [loop EXCEPT ![t] = NoLoop("loop")]
    /\ UNCHANGED <<now, adapter, around, shared, audio_queue, lifecycle, sway_lock, callers,
                   history>>

\* ---------------------------------------------------------------- feed
\* lines 67-69: the chunk is decoded and stamped with the generation read
\* under the state lock.
FeedStampWithin(n) ==
    /\ feeder.pc = "idle"
    /\ nfeeds < n
    /\ nfeeds' = nfeeds + 1
    /\ feeder' = [pc |-> "stamped", generation |-> generation]
    /\ UNCHANGED <<now, adapter, around, shared, audio_queue, unfinished, lifecycle, sway_lock,
                   loop, ctl, nstarts, life, history>>

FeedStamp == FeedStampWithin(MaxFeeds)

\* line 70: audio_queue.put of the stamped chunk
FeedPut ==
    /\ feeder.pc = "stamped"
    /\ audio_queue' = Append(audio_queue, feeder.generation)
    /\ unfinished' = unfinished + 1
    /\ feeder' = [pc |-> "idle", generation |-> 0]
    /\ UNCHANGED <<now, adapter, around, shared, lifecycle, sway_lock, loop, ctl, nfeeds,
                   nstarts, life, history>>

\* A feed() that lets the decoding error out.
FeedMalformedRaises ==
    /\ feeder.pc = "idle"
    /\ nfeeds < MaxFeeds
    /\ nfeeds' = nfeeds + 1
    /\ feeder' = [pc |-> "raised", generation |-> 0]
    /\ UNCHANGED <<now, adapter, around, shared, audio_queue, unfinished, lifecycle, sway_lock,
                   loop, ctl, nstarts, life, history>>

\* lines 66-67 and 71-72: base64.b64decode or np.frombuffer raises on an
\* undecodable argument, before the lock and the queue are touched; the except
\* clause prints and feed() returns.
FeedMalformed ==
    /\ feeder.pc = "idle"
    /\ nfeeds < MaxFeeds
    /\ nfeeds' = nfeeds + 1
    /\ UNCHANGED <<now, adapter, around, shared, audio_queue, unfinished, lifecycle, sway_lock,
                   loop, feeder, ctl, nstarts, life, history>>

\* --------------------------------------------------------------- start
\* lines 76-80: the stop event is cleared, the base pose captured when the
\* robot gives one, and a new thread runs working_loop.
StartThread ==
    /\ ctl = "idle"
    /\ stop_event' = FALSE
    /\ \E captured \in BOOLEAN : base_head_pose' = captured
    /\ thread' = nstarts + 1
    /\ loop' = [loop EXCEPT ![nstarts + 1] = NoLoop("loop")]
    /\ nstarts' = nstarts + 1
    /\ life' = "running"
    /\ UNCHANGED <<now, adapter, around, shared, audio_queue, unfinished, sway_lock, feeder,
                   ctl, nfeeds, history>>

\* start() on a new scheduler: conversation.py:148-149 builds a HeadWobbler
\* for every session and starts it once.
Start == life = "new" /\ StartThread

\* start() on a scheduler that is Running: nothing in start() forbids it.
StartWhileRunning == life = "running" /\ nstarts < MaxThreads /\ StartThread

\* ---------------------------------------------------------------- stop

\* A stop() that forgets to set the stop event.
StopSetForgets ==
    /\ ctl = "idle"
    /\ ctl' = "stop_join"
    /\ UNCHANGED <<now, adapter, around, shared, audio_queue, unfinished, lifecycle,
                   sway_lock, loop, feeder, nfeeds, nstarts, life, history>>

\* line 85
StopSet ==
    /\ ctl = "idle"
    /\ stop_event' = TRUE
    /\ ctl' = "stop_join"
    /\ UNCHANGED <<now, adapter, around, shared, audio_queue, unfinished, thread,
                   base_head_pose, sway_lock, loop, feeder, nfeeds, nstarts,
                   life, history>>

\* A stop() that does not wait for the thread.
JoinedAtOnce == TRUE

\* lines 86-87: join() returns once the thread of self._thread has ended.
Joined == IF thread = NoThread THEN TRUE ELSE Terminated(thread)

\* A _reset_to_base_pose that commands the head whether or not a pose was captured.
RestoreAlways == "restore"

\* lines 130-144, _reset_to_base_pose: the head is sent to the captured pose.
RestoreCmd == IF base_head_pose THEN "restore" ELSE last_cmd

\* lines 132-141: the command goes out when a base pose was captured.
RestoreSent == base_head_pose

\* lines 130-144, _reset_to_base_pose with the robot in any condition:
\* nothing is sent without a captured pose, and an exception of
\* goto_head_pose or set_head_pose is caught at line 143.
ResetToBasePose(posed, fails) ==
    IF ~posed THEN "none" ELSE IF fails THEN "caught" ELSE "sent"

\* lines 86-90 with the robot in any condition.
StopJoinOn ==
    /\ ctl = "stop_join"
    /\ Joined
    /\ \E fails \in BOOLEAN :
          LET o == ResetToBasePose(base_head_pose, fails)
          IN  /\ last_cmd' = IF o = "sent" THEN "restore" ELSE last_cmd
              /\ restore_sent' = (o # "none")
              /\ ctl' = IF o = "raised" THEN "raised" ELSE "idle"
    /\ life' = "stopped"
    /\ UNCHANGED <<now, adapter, around, shared, audio_queue, unfinished, lifecycle,
                   sway_lock, loop, feeder, nfeeds, nstarts, last_disp, fresh>>

\* lines 86-90: the join returns, the base pose is restored, stop() returns.
StopJoin ==
    /\ ctl = "stop_join"
    /\ Joined
    /\ last_cmd' = RestoreCmd
    /\ restore_sent' = RestoreSent
    /\ ctl' = "idle"
    /\ life' = "stopped"
    /\ UNCHANGED <<now, adapter, around, shared, audio_queue, unfinished, lifecycle, sway_lock,
                   loop, feeder, nfeeds, nstarts, last_disp, fresh>>

\* --------------------------------------------------------------- reset
\* A reset() that counts the generation down instead of up.
ResetCountsDown ==
    /\ ctl = "idle"
    /\ generation > 0 - MaxResets
    /\ generation' = generation - 1
    /\ base_ts' = NoTs
    /\ hops_done' = 0
    /\ robot_speaking' = FALSE
    /\ fresh' = TRUE
    /\ ctl' = "reset_drain"
    /\ UNCHANGED <<now, adapter, around, audio_queue, unfinished, lifecycle, sway_lock, loop,
                   feeder, nfeeds, nstarts, life, last_cmd, last_disp,
                   restore_sent>>

\* A reset() that leaves the anchor of the old schedule in place.
ResetKeepsAnchor ==
    /\ ctl = "idle"
    /\ generation < MaxResets
    /\ generation' = generation + 1
    /\ hops_done' = 0
    /\ robot_speaking' = FALSE
    /\ fresh' = TRUE
    /\ ctl' = "reset_drain"
    /\ UNCHANGED <<now, adapter, around, base_ts, audio_queue, unfinished, lifecycle, sway_lock,
                   loop, feeder, nfeeds, nstarts, life, last_cmd, last_disp,
                   restore_sent>>

\* A reset() that leaves the hop counter of the old schedule in place.
ResetKeepsHops ==
    /\ ctl = "idle"
    /\ generation < MaxResets
    /\ generation' = generation + 1
    /\ base_ts' = NoTs
    /\ robot_speaking' = FALSE
    /\ fresh' = TRUE
    /\ ctl' = "reset_drain"
    /\ UNCHANGED <<now, adapter, around, hops_done, audio_queue, unfinished, lifecycle, sway_lock,
                   loop, feeder, nfeeds, nstarts, life, last_cmd, last_disp,
                   restore_sent>>

\* lines 417-422
ResetState ==
    /\ ctl = "idle"
    /\ generation < MaxResets
    /\ generation' = generation + 1
    /\ base_ts' = NoTs
    /\ hops_done' = 0
    /\ robot_speaking' = FALSE
    /\ fresh' = TRUE
    /\ ctl' = "reset_drain"
    /\ UNCHANGED <<now, adapter, around, audio_queue, unfinished, lifecycle, sway_lock, loop,
                   feeder, nfeeds, nstarts, life, last_cmd, last_disp,
                   restore_sent>>

\* A drain that takes the queued chunks without acknowledging them.
ResetDrainForgets ==
    /\ ctl = "reset_drain"
    /\ audio_queue' = <<>>
    /\ ctl' = "reset_sway"
    /\ UNCHANGED <<now, adapter, around, shared, unfinished, lifecycle, sway_lock, loop,
                   feeder, nfeeds, nstarts, life, history>>

\* lines 425-433: every queued chunk is taken and acknowledged, until
\* get_nowait() raises queue.Empty.
ResetDrain ==
    /\ ctl = "reset_drain"
    /\ audio_queue' = <<>>
    /\ unfinished' = unfinished - Len(audio_queue)
    /\ ctl' = "reset_sway"
    /\ UNCHANGED <<now, adapter, around, shared, lifecycle, sway_lock, loop, feeder, nfeeds,
                   nstarts, life, history>>

\* lines 435-442: sway.reset() under the engine lock, the base pose is
\* restored, reset() returns.
ResetSway ==
    /\ ctl = "reset_sway"
    /\ sway_lock = "free"
    /\ last_cmd' = RestoreCmd
    /\ restore_sent' = RestoreSent
    /\ ctl' = "idle"
    /\ UNCHANGED <<now, adapter, around, shared, audio_queue, unfinished, lifecycle, sway_lock,
                   loop, feeder, nfeeds, nstarts, life, last_disp, fresh>>

\* lines 435-442 with the robot in any condition.
ResetSwayOn ==
    /\ ctl = "reset_sway"
    /\ sway_lock = "free"
    /\ \E fails \in BOOLEAN :
          LET o == ResetToBasePose(base_head_pose, fails)
          IN  /\ last_cmd' = IF o = "sent" THEN "restore" ELSE last_cmd
              /\ restore_sent' = (o # "none")
              /\ ctl' = IF o = "raised" THEN "raised" ELSE "idle"
    /\ UNCHANGED <<now, adapter, around, shared, audio_queue, unfinished, lifecycle,
                   sway_lock, loop, feeder, nfeeds, nstarts, life, last_disp,
                   fresh>>

\* -------------------------------------------------- set_robot_speaking
\* A set_robot_speaking(False) that rewinds the epoch.
SetRobotSpeakingRewinds(speaking) ==
    /\ ctl = "idle"
    /\ robot_speaking' = speaking
    /\ generation' = IF speaking THEN generation ELSE 0
    /\ UNCHANGED <<now, adapter, around, base_ts, hops_done, audio_queue,
                   unfinished, lifecycle, sway_lock, loop, callers, history>>

\* A set_robot_speaking that rewinds the schedule as reset() does.
SetRobotSpeakingRewindsTiming(speaking) ==
    /\ ctl = "idle"
    /\ robot_speaking' = speaking
    /\ base_ts' = NoTs
    /\ hops_done' = 0
    /\ UNCHANGED <<now, adapter, around, generation, audio_queue,
                   unfinished, lifecycle, sway_lock, loop, callers, history>>

\* lines 102-104
SetRobotSpeaking(speaking) ==
    /\ ctl = "idle"
    /\ robot_speaking' = speaking
    /\ UNCHANGED <<now, adapter, around, generation, base_ts, hops_done, audio_queue,
                   unfinished, lifecycle, sway_lock, loop, callers, history>>

\* ----------------------------------------------------- specifications
Dispatch ==
    \E t \in Threads :
        \/ Exit(t)
        \/ PollEmpty(t)
        \/ PollWake(t)
        \/ Pop(t)
        \/ Anchor(t)
        \/ SwayAcquire(t)
        \/ SwayFeedReturn(t)
        \/ SwayFeedRaise(t)
        \/ ReadState(t)
        \/ DropLagged(t)
        \/ SleepWake(t)
        \/ CheckSpeaking(t)
        \/ Suppress(t)
        \/ Apply(t)
        \/ Count(t)
        \/ Ack(t)

Feed == FeedStamp \/ FeedPut \/ FeedMalformed

Stop == StopSet \/ StopJoin

Reset == ResetState \/ ResetDrain \/ ResetSway

Speaking == \E speaking \in BOOLEAN : SetRobotSpeaking(speaking)

\* A scheduler that is started once.
Next == Tick \/ Dispatch \/ Feed \/ Start \/ Stop \/ Reset \/ Speaking

Spec == Init /\ [][Next]_vars

\* Any sequence of start() and stop() calls, start() on a Running scheduler
\* included.
NextAny == Tick \/ Dispatch \/ Feed \/ Start \/ StartWhileRunning \/ Stop \/ Speaking

SpecAny == Init /\ [][NextAny]_vars

\* A scheduler started once that is fed once more, with speech the robot is
\* told to accompany: the runs in which chunks of two generations meet.
FeedAgain == FeedStampWithin(MaxFeeds + 1)

\* The loop of a thread that is not asked to stop, over a sound engine.
DispatchAcross ==
    \E t \in Threads :
        \/ PollEmpty(t)
        \/ PollWake(t)
        \/ Pop(t)
        \/ Anchor(t)
        \/ SwayAcquire(t)
        \/ SwayFeedReturn(t)
        \/ ReadState(t)
        \/ DropLagged(t)
        \/ SleepWake(t)
        \/ CheckSpeaking(t)
        \/ Suppress(t)
        \/ Apply(t)
        \/ Count(t)
        \/ Ack(t)

NextAcross ==
    \/ Tick \/ DispatchAcross \/ FeedAgain \/ FeedPut \/ Start \/ Reset
    \/ SetRobotSpeaking(TRUE)

SpecAcross == Init /\ [][NextAcross]_vars

\* The scheduler with the robot in any condition at every call it receives,
\* the engine and the producer being sound.
DispatchOn ==
    \E t \in Threads :
        \/ Exit(t)
        \/ PollEmpty(t)
        \/ PollWake(t)
        \/ Pop(t)
        \/ Anchor(t)
        \/ SwayAcquire(t)
        \/ SwayFeedReturn(t)
        \/ ReadState(t)
        \/ DropLagged(t)
        \/ SleepWake(t)
        \/ CheckSpeaking(t)
        \/ Suppress(t)
        \/ ApplyOn(t)
        \/ Count(t)
        \/ Ack(t)

NextRobots ==
    \/ Tick \/ DispatchOn \/ FeedStamp \/ FeedPut \/ Start
    \/ StopSet \/ StopJoinOn
    \/ ResetState \/ ResetDrain \/ ResetSwayOn
    \/ SetRobotSpeaking(TRUE)

SpecRobots == Init /\ [][NextRobots]_vars

\* _apply_offsets called on any robot.
Command ==
    /\ \E rb \in Robots : adapter' = ApplyOffsets(rb)
    /\ UNCHANGED <<now, around, shared, audio_queue, unfinished, lifecycle,
                   sway_lock, loop, callers, history>>

\* The actuator adapter alone, over every robot.
SpecActuator == Init /\ [][Command]_vars

\* ------------------------------------------------------------ progress
\* MaxTime is where the clock stops being counted, not where time stops: a
\* sleep still pending at MaxTime ends beyond it.
\* line 322: the sleep of the empty poll ends beyond the counted time.
PollWakeBeyond(t) ==
    /\ loop[t].pc = "idle"
    /\ now = MaxTime
    /\ now < loop[t].wake
    /\ loop' = [loop EXCEPT ![t] = [@ EXCEPT !.pc = "loop", !.wake = 0]]
    /\ UNCHANGED <<now, adapter, around, shared, audio_queue, unfinished, lifecycle, sway_lock,
                   callers, history>>

\* lines 371-374: the sleep until the target ends beyond the counted time.
SleepWakeBeyond(t) ==
    /\ loop[t].pc = "sleep"
    /\ now = MaxTime
    /\ now < loop[t].target
    /\ loop' = [loop EXCEPT ![t] =
                   [@ EXCEPT !.pc = IF generation # loop[t].chunk_generation
                                    THEN "ack" ELSE "check"]]
    /\ UNCHANGED <<now, adapter, around, shared, audio_queue, unfinished, lifecycle, sway_lock,
                   callers, history>>

\* One step of dispatch thread t when the engine and the actuator return.
Step(t) ==
    \/ Exit(t)
    \/ PollEmpty(t)
    \/ PollWake(t)
    \/ PollWakeBeyond(t)
    \/ Pop(t)
    \/ Anchor(t)
    \/ SwayAcquire(t)
    \/ SwayFeedReturn(t)
    \/ ReadState(t)
    \/ DropLagged(t)
    \/ SleepWake(t)
    \/ SleepWakeBeyond(t)
    \/ CheckSpeaking(t)
    \/ Suppress(t)
    \/ Apply(t)
    \/ Count(t)
    \/ Ack(t)

NextLive ==
    \/ Tick \/ (\E t \in Threads : Step(t)) \/ FeedStamp \/ FeedPut \/ Start
    \/ Stop \/ SetRobotSpeaking(TRUE)

\* The clock advances, a thread that can run is scheduled, and a caller whose
\* join() can return goes on.
Fairness ==
    /\ WF_vars(Tick)
    /\ \A t \in Threads : WF_vars(Step(t))
    /\ WF_vars(StopJoin)

\* A scheduler started once whose threads are scheduled fairly and whose
\* engine and actuator calls return.
SpecLive == Init /\ [][NextLive]_vars /\ Fairness

NextProgress ==
    \/ Tick \/ (\E t \in Threads : Step(t)) \/ FeedStamp \/ FeedPut \/ Start
    \/ Stop \/ Reset \/ SetRobotSpeaking(TRUE)

\* The same scheduler with reset() among its callers: the chunks in the
\* queue have two consumers.
SpecProgress == Init /\ [][NextProgress]_vars /\ Fairness

\* ------------------------------------------------------ lock-level view
\* The same methods, statement by statement, with the data left out: a
\* statement is the line it is at, what it does (acquire or release a lock,
\* read or write a field, make a call that may block, or test and compute on
\* locals), what it does it on, and the lines that may come next.  A label
\* "Nx" is the exit of the with block whose last line is N, "Nb" the exit of
\* that block by the break of line N, "Ne" its exit by an exception.
St(a, o, n, t) == [at |-> a, op |-> o, on |-> n, to |-> t]

\* The fields the state lock is there for.
Tuple == {"generation", "base_ts", "hops_done", "robot_speaking"}

\* lines 64-72, feed
FeedCode ==
    { St("idle", "begin", "feed", {"67"}),
      St("67", "goto", "decode", {"68", "idle"}),
      St("68", "acquire", "state", {"69"}),
      St("69", "read", "generation", {"69x"}),
      St("69x", "release", "state", {"70"}),
      St("70", "goto", "put", {"idle"}) }

\* lines 74-81 and 108-128, start and _capture_base_pose
StartCode ==
    { St("idle", "begin", "start", {"77"}),
      St("77", "clear", "stop_event", {"110"}),
      St("110", "goto", "reachy", {"115", "122", "79"}),
      St("115", "call", "actuator", {"116", "79"}),
      St("116", "acquire", "pose", {"117"}),
      St("117", "write", "base_head_pose", {"117x"}),
      St("117x", "release", "pose", {"79"}),
      St("122", "acquire", "pose", {"123"}),
      St("123", "write", "base_head_pose", {"123x"}),
      St("123x", "release", "pose", {"79"}),
      St("79", "spawn", "thread", {"idle"}) }

\* lines 83-90, stop
StopCode ==
    { St("idle", "begin", "stop", {"85"}),
      St("85", "set", "stop_event", {"86"}),
      St("86", "join", "thread", {"132"}) }

\* lines 92-106, set_robot_speaking
SpeakingCode ==
    { St("idle", "begin", "set_robot_speaking", {"102"}),
      St("102", "acquire", "state", {"103"}),
      St("103", "read", "robot_speaking", {"104"}),
      St("104", "write", "robot_speaking", {"105"}),
      St("105", "goto", "print", {"106x"}),
      St("106x", "release", "state", {"idle"}) }

\* lines 130-144, _reset_to_base_pose, the last call of stop() and of reset()
RestoreCode ==
    { St("132", "goto", "reachy", {"134", "idle"}),
      St("134", "acquire", "pose", {"135"}),
      St("135", "read", "base_head_pose", {"135x"}),
      St("135x", "release", "pose", {"139", "idle"}),
      St("139", "call", "actuator", {"idle"}) }

\* A reset() that takes the engine lock inside its state-lock block.
ResetStateCodeNested ==
    { St("idle", "begin", "reset", {"417"}),
      St("417", "acquire", "state", {"418"}),
      St("418", "write", "generation", {"419"}),
      St("419", "write", "base_ts", {"420"}),
      St("420", "write", "hops_done", {"422"}),
      St("422", "write", "robot_speaking", {"422n"}),
      St("422n", "acquire", "sway", {"422m"}),
      St("422m", "release", "sway", {"422x"}),
      St("422x", "release", "state", {"426"}) }

\* lines 417-422, reset: the locked block
ResetStateCode ==
    { St("idle", "begin", "reset", {"417"}),
      St("417", "acquire", "state", {"418"}),
      St("418", "write", "generation", {"419"}),
      St("419", "write", "base_ts", {"420"}),
      St("420", "write", "hops_done", {"422"}),
      St("422", "write", "robot_speaking", {"422x"}),
      St("422x", "release", "state", {"426"}) }

\* lines 424-433, reset: the drain
ResetDrainCode ==
    { St("426", "goto", "get_nowait", {"426", "435"}) }

\* A reset() that calls the engine without its lock.
ResetEngineCodeUnlocked ==
    { St("435", "goto", "sway", {"436"}),
      St("436", "call", "engine", {"436x"}),
      St("436x", "goto", "sway", {"132"}) }

\* lines 435-439, reset: sway.reset() and on to the restore
ResetEngineCode ==
    { St("435", "acquire", "sway", {"436"}),
      St("436", "call", "engine", {"436x"}),
      St("436x", "release", "sway", {"132"}) }

\* lines 313-323, working_loop: the while test and the empty poll
PollCode ==
    { St("313", "while", "stop_event", {"316", "done"}),
      St("316", "goto", "get_nowait", {"322", "326"}),
      St("322", "call", "sleep", {"313"}) }

\* lines 325-329: the staleness check of the chunk
StaleCode ==
    { St("326", "acquire", "state", {"327"}),
      St("327", "read", "generation", {"327x"}),
      St("327x", "release", "state", {"328"}),
      St("328", "goto", "stale", {"411", "331"}) }

\* lines 331-334: the anchor
AnchorCode ==
    { St("331", "read", "base_ts", {"332", "336"}),
      St("332", "acquire", "state", {"333"}),
      St("333", "read", "base_ts", {"334", "334x"}),
      St("334", "write", "base_ts", {"334x"}),
      St("334x", "release", "state", {"336"}) }

\* lines 336-341: the engine
EngineCode ==
    { St("336", "goto", "pcm", {"337"}),
      St("337", "acquire", "sway", {"338"}),
      St("338", "call", "engine", {"339", "338e"}),
      St("339", "goto", "print", {"340x"}),
      St("340x", "release", "sway", {"343"}),
      St("338e", "release", "sway", {"411e"}),
      St("411e", "goto", "task_done", {"done"}) }

\* lines 343-355: the batch test and the read of the schedule
ReadCode ==
    { St("343", "goto", "results", {"344", "411"}),
      St("344", "acquire", "state", {"345"}),
      St("345", "read", "generation", {"346b", "347"}),
      St("346b", "release", "state", {"411"}),
      St("347", "read", "base_ts", {"348"}),
      St("348", "read", "hops_done", {"348x"}),
      St("348x", "release", "state", {"350"}),
      St("350", "goto", "base_ts", {"352", "357"}),
      St("352", "acquire", "state", {"353"}),
      St("353", "read", "base_ts", {"354", "355x"}),
      St("354", "write", "base_ts", {"355"}),
      St("355", "read", "hops_done", {"355x"}),
      St("355x", "release", "state", {"357"}) }

\* lines 357-368: the target and the lag
LagCode ==
    { St("357", "goto", "target", {"364", "370"}),
      St("364", "acquire", "state", {"365"}),
      St("365", "write", "hops_done", {"366"}),
      St("366", "read", "hops_done", {"366x"}),
      St("366x", "release", "state", {"343"}) }

\* A loop that sleeps inside the locked block that follows the sleep.
SleepCodeLocked ==
    { St("370", "goto", "target", {"372", "376"}),
      St("372", "acquire", "state", {"371"}),
      St("371", "call", "sleep", {"373"}),
      St("373", "read", "generation", {"374b", "374x"}),
      St("374b", "release", "state", {"411"}),
      St("374x", "release", "state", {"376"}) }

\* lines 370-374: the sleep until the target
SleepCode ==
    { St("370", "goto", "target", {"371", "376"}),
      St("371", "call", "sleep", {"372"}),
      St("372", "acquire", "state", {"373"}),
      St("373", "read", "generation", {"374b", "374x"}),
      St("374b", "release", "state", {"411"}),
      St("374x", "release", "state", {"376"}) }

\* lines 376-400: the record, the last generation check, the suppression
SuppressCode ==
    { St("376", "goto", "offsets", {"386"}),
      St("386", "acquire", "state", {"387"}),
      St("387", "read", "generation", {"388b", "390"}),
      St("388b", "release", "state", {"411"}),
      St("390", "read", "robot_speaking", {"390x"}),
      St("390x", "release", "state", {"393"}),
      St("393", "goto", "robot_speaking", {"397", "403"}),
      St("397", "acquire", "state", {"398"}),
      St("398", "write", "hops_done", {"398x"}),
      St("398x", "release", "state", {"343"}) }

\* lines 403-410: the deadband, _apply_offsets, the count
ApplyCode ==
    { St("403", "goto", "deadband", {"153", "408"}),
      St("408", "acquire", "state", {"409"}),
      St("409", "write", "hops_done", {"409x"}),
      St("409x", "release", "state", {"343"}) }

\* lines 146-305, _apply_offsets: the robot calls of the three tiers, and
\* without a head attribute the base pose fallback of lines 251-300
OffsetsCode ==
    { St("153", "goto", "reachy", {"161", "408"}),
      St("161", "call", "actuator", {"408", "253"}),
      St("253", "acquire", "pose", {"254"}),
      St("254", "read", "base_head_pose", {"254x"}),
      St("254x", "release", "pose", {"260", "297", "408"}),
      St("260", "call", "actuator", {"261", "408"}),
      St("261", "acquire", "pose", {"262"}),
      St("262", "write", "base_head_pose", {"262x"}),
      St("262x", "release", "pose", {"297"}),
      St("297", "call", "actuator", {"408"}) }

\* lines 411-413: task_done, back to the while test
DoneCode ==
    { St("411", "goto", "task_done", {"313"}) }

\* What each thread runs.
Code(p) ==
    IF p = "feed" THEN FeedCode
    ELSE IF p = "ctl"
         THEN StartCode \cup StopCode \cup SpeakingCode \cup RestoreCode
              \cup ResetStateCode \cup ResetDrainCode \cup ResetEngineCode
    ELSE PollCode \cup StaleCode \cup AnchorCode \cup EngineCode \cup ReadCode
         \cup LagCode \cup SleepCode \cup SuppressCode \cup ApplyCode
         \cup OffsetsCode \cup DoneCode

\* The statements thread p may execute next.
Here(p) == {s \in Code(p) : s.at = at[p]}

\* What the lock-level view leaves alone.
data == <<now, shared, audio_queue, unfinished, thread, base_head_pose,
          sway_lock, loop, callers, history, adapter, conversation_speaking>>

Goes(p, s) == \E n \in s.to : at' = [at EXCEPT ![p] = n]

\* A method is called; start() is called once, on a new scheduler.
Begin(p) ==
    /\ \E s \in Here(p) :
          /\ s.op = "begin"
          /\ s.on = "start" => at["loop"] = "unborn"
          /\ Goes(p, s)
    /\ UNCHANGED <<held, stop_event, data>>

\* `with lock:` is entered when the lock is free.
Acquire(p) ==
    /\ \E s \in Here(p) :
          /\ s.op = "acquire"
          /\ held[s.on] = "free"
          /\ held' = [held EXCEPT ![s.on] = p]
          /\ Goes(p, s)
    /\ UNCHANGED <<stop_event, data>>

\* The with block is left, by its end, a break or an exception.
Release(p) ==
    /\ \E s \in Here(p) :
          /\ s.op = "release"
          /\ held[s.on] = p
          /\ held' = [held EXCEPT ![s.on] = "free"]
          /\ Goes(p, s)
    /\ UNCHANGED <<stop_event, data>>

\* A field of the object is read or written.
Access(p) ==
    /\ \E s \in Here(p) : s.op \in {"read", "write"} /\ Goes(p, s)
    /\ UNCHANGED <<held, stop_event, data>>

\* A call that may take time returns: time.sleep, the engine, the robot.
Call(p) ==
    /\ \E s \in Here(p) : s.op = "call" /\ Goes(p, s)
    /\ UNCHANGED <<held, stop_event, data>>

\* A test or a computation on locals and on the queue.
Local(p) ==
    /\ \E s \in Here(p) : s.op = "goto" /\ Goes(p, s)
    /\ UNCHANGED <<held, stop_event, data>>

\* line 313: the loop goes on until the stop event is set.
WhileTest(p) ==
    /\ \E s \in Here(p) :
          /\ s.op = "while"
          /\ at' = [at EXCEPT ![p] = IF stop_event THEN "done" ELSE "316"]
    /\ UNCHANGED <<held, stop_event, data>>

\* lines 77 and 85: the stop event is cleared by start(), set by stop().
Signal(p) ==
    /\ \E s \in Here(p) :
          /\ s.op \in {"clear", "set"}
          /\ stop_event' = (s.op = "set")
          /\ Goes(p, s)
    /\ UNCHANGED <<held, data>>

\* lines 79-80: the dispatch thread starts at the top of working_loop.
Spawn(p) ==
    /\ \E s \in Here(p) :
          /\ s.op = "spawn"
          /\ \E n \in s.to : at' = [at EXCEPT ![p] = n, !["loop"] = "313"]
    /\ UNCHANGED <<held, stop_event, data>>

\* lines 86-87: join() returns when there is no thread or it has ended.
Join(p) ==
    /\ \E s \in Here(p) :
          /\ s.op = "join"
          /\ at["loop"] \in {"unborn", "done"}
          /\ Goes(p, s)
    /\ UNCHANGED <<held, stop_event, data>>

NextLocks ==
    \E p \in Procs :
        \/ Begin(p) \/ Acquire(p) \/ Release(p) \/ Access(p) \/ Call(p)
        \/ Local(p) \/ WhileTest(p) \/ Signal(p) \/ Spawn(p) \/ Join(p)

\* The three threads at the level of single statements and locks.
SpecLocks == Init /\ [][NextLocks]_vars

\* ----------------------------------------------------- the application
\* conversation.py, ConversationTool: it builds the HeadWobbler and starts it
\* (lines 148-149), handles the events of the session one after the other in
\* _handle_event (lines 400-512), and stops the HeadWobbler from stop() (lines
\* 186-188).  It keeps a speaking flag of its own, which
\* _notify_head_tracking_robot_speaking (lines 753-769) passes to the head
\* tracking tool.

\* The event handler is between two events.
Handling == life = "running" /\ ctl = "idle" /\ feeder.pc = "idle"

\* lines 469-472, "response.created": the flag is set, head tracking notified.
ResponseCreated ==
    /\ Handling
    /\ ~conversation_speaking
    /\ conversation_speaking' = TRUE
    /\ UNCHANGED <<now, adapter, locking, shared, audio_queue, unfinished, lifecycle,
                   sway_lock, loop, callers, history>>

\* lines 489-504, an audio delta: the flag is set if it was not, head tracking
\* notified, and the delta goes to feed(), which stamps it (lines 67-69).
AudioDelta ==
    /\ Handling
    /\ nfeeds < MaxFeeds
    /\ conversation_speaking' = TRUE
    /\ nfeeds' = nfeeds + 1
    /\ feeder' = [pc |-> "stamped", generation |-> generation]
    /\ UNCHANGED <<now, adapter, locking, shared, audio_queue, unfinished, lifecycle,
                   sway_lock, loop, ctl, nstarts, life, history>>

\* lines 456-468, the audio of the response is done: the flag is cleared, head
\* tracking notified, and reset() is called, here its locked block.
AudioDone ==
    /\ Handling
    /\ generation < MaxResets
    /\ conversation_speaking' = FALSE
    /\ generation' = generation + 1
    /\ base_ts' = NoTs
    /\ hops_done' = 0
    /\ robot_speaking' = FALSE
    /\ fresh' = TRUE
    /\ ctl' = "reset_drain"
    /\ UNCHANGED <<now, adapter, locking, audio_queue, unfinished, lifecycle, sway_lock,
                   loop, feeder, nfeeds, nstarts, life, last_cmd, last_disp,
                   restore_sent>>

\* lines 404-414, the user starts to speak: reset() is called.
SpeechStarted == Handling /\ ResetState

\* The dispatch loop as the application runs it: no step of it reaches
\* _apply_offsets or the count that follows it.
DispatchApp ==
    \E t \in Threads :
        \/ Exit(t)
        \/ PollEmpty(t)
        \/ PollWake(t)
        \/ Pop(t)
        \/ Anchor(t)
        \/ SwayAcquire(t)
        \/ SwayFeedReturn(t)
        \/ ReadState(t)
        \/ DropLagged(t)
        \/ SleepWake(t)
        \/ CheckSpeaking(t)
        \/ Suppress(t)
        \/ Ack(t)

NextApp ==
    \/ Tick \/ DispatchApp \/ Start \/ Stop
    \/ ResponseCreated \/ AudioDelta \/ FeedPut
    \/ AudioDone \/ SpeechStarted \/ ResetDrain \/ ResetSway

\* The HeadWobbler as ConversationTool drives it.
SpecApp == Init /\ [][NextApp]_vars

\* ---------------------------------------------------------- properties
\* Thread t passes a record to _apply_offsets in this step.
Dispatches(t) ==
    /\ loop[t].pc = "apply"
    /\ loop'[t].pc = "count"
    /\ Len(loop'[t].sent) = Len(loop[t].sent) + 1

\* Thread t is inside a batch whose generation check still holds.
Current(t) == loop[t].chunk_generation = generation

\* C1: once reset() has incremented the generation, no record of a chunk
\* stamped with an older generation is passed to _apply_offsets: every record
\* passed to the actuator comes from a chunk of the current generation.
C1_NoStaleDispatch ==
    [][\A t \in Threads : Dispatches(t) => Current(t)]_vars

\* C2: the dispatch thread ends only by seeing the stop event at the top of
\* the loop; a failure of sway.feed does not end it.
C2_ExitsOnlyOnStop ==
    [][\A t \in Threads :
          (Alive(t) /\ ~Alive(t)') => (stop_event /\ loop'[t].pc = "exited")]_vars

\* C3: for a scheduler started once, whenever stop() has returned the dispatch
\* thread has terminated, so that no thread is left to dispatch an offset,
\* whatever the queue still holds.
C3_StopJoins ==
    (life = "stopped" /\ nstarts = 1) =>
        (Terminated(thread) /\ \A t \in Threads : ~Alive(t))

C3_Witness ==
    /\ life = "stopped"
    /\ nstarts = 1
    /\ audio_queue # <<>>

\* C4: whatever the sequence of start() and stop() calls, at most one dispatch
\* thread is alive.
C4_OneThread ==
    Cardinality({t \in Threads : Alive(t)}) <= 1

\* C5: within one generation the offsets go to the actuator in non-decreasing
\* order of target: a record about to be applied has a target no earlier than
\* the target of the last offset dispatched for the same generation.
C5_TargetsInOrder ==
    \A t \in Threads :
        (/\ loop[t].pc = "apply"
         /\ Significant(loop[t].r)
         /\ last_disp.generation = loop[t].chunk_generation)
        => loop[t].target >= last_disp.target

C5_Witness ==
    \E t \in Threads :
        /\ loop[t].pc = "apply"
        /\ Significant(loop[t].r)
        /\ last_disp.generation = loop[t].chunk_generation
        /\ loop[t].target > last_disp.target
        /\ "mute" \in loop[t].skips

\* The batch of thread t has N >= 2 records and, at its first record, the clock
\* was past the deadline of record N-2 (original reading of C6).
PastDeadlines(t) ==
    /\ loop[t].nresults >= 2
    /\ loop[t].lag0 > (loop[t].nresults - 2) * HOP_DT

\* The same with the clock at or past the deadline of record N-1, one whole
\* hop after the deadline of record N-2.
PastWholeHops(t) ==
    /\ loop[t].nresults >= 2
    /\ loop[t].lag0 >= (loop[t].nresults - 1) * HOP_DT

\* C6 as stated: in a batch of N records that starts with the clock past the
\* deadline of records 0..N-2, only record N-1 is applied.
C6_LagKeepsLast_AsStated ==
    \A t \in Threads :
        (PastDeadlines(t) /\ loop[t].pc = "apply" /\ Significant(loop[t].r))
        => loop[t].i = loop[t].nresults - 1

\* C6 amended: in a batch of N records that starts with the clock at least one
\* hop past the deadline of record N-2, records 0..N-2 are dropped in one step
\* and counted in hops_done, and record N-1 is the only one that goes on to be
\* applied.
C6_LagKeepsLast ==
    \A t \in Threads :
        PastWholeHops(t) =>
            /\ loop[t].pc = "drop" =>
                   (loop[t].i = 0 /\ loop[t].drop = loop[t].nresults - 1)
            /\ loop[t].pc \in {"sleep", "check", "suppress", "apply", "count"} =>
                   (/\ loop[t].i = loop[t].nresults - 1
                    /\ "lag" \in loop[t].skips
                    /\ Current(t) => hops_done >= loop[t].nresults - 1)
            /\ Len(loop[t].sent) <= 1

C6_Witness ==
    \E t \in Threads :
        /\ PastWholeHops(t)
        /\ loop[t].pc = "count"
        /\ loop[t].i = loop[t].nresults - 1
        /\ Len(loop[t].sent) = 1

\* C7: a record examined while robot_speaking is false is counted in
\* hops_done and not applied; one examined while it is true goes on to the
\* deadband test; and setting robot_speaking to true leaves hops_done,
\* base_ts and generation as they are.
C7_Suppression ==
    [][/\ \A t \in Threads :
            /\ (loop[t].pc = "check" /\ loop'[t].pc # "check" /\ Current(t)) =>
                   loop'[t].pc = IF robot_speaking THEN "apply" ELSE "suppress"
            /\ (loop[t].pc = "suppress" /\ loop'[t].pc # "suppress") =>
                   /\ hops_done' = hops_done + 1
                   /\ loop'[t].i = loop[t].i + 1
                   /\ loop'[t].sent = loop[t].sent
                   /\ UNCHANGED <<last_cmd, last_disp>>
       /\ (robot_speaking' /\ ~robot_speaking) =>
              UNCHANGED <<hops_done, base_ts, generation>>]_vars

C7_Witness ==
    \E t \in Threads :
        /\ loop[t].pc = "count"
        /\ loop[t].skips = {"mute"}
        /\ Len(loop[t].sent) = 1
        /\ Current(t)
        /\ hops_done = loop[t].i

\* C8: a record below the deadband is not passed to _apply_offsets, a record
\* above it (examined while speaking) is passed exactly once, and either way
\* hops_done advances by one.
C8_Deadband ==
    [][\A t \in Threads :
          /\ (loop[t].pc = "apply" /\ loop'[t].pc # "apply") =>
                 /\ loop'[t].pc = "count"
                 /\ loop[t].r < DEADBAND =>
                        (loop'[t].sent = loop[t].sent /\ UNCHANGED <<last_cmd, last_disp>>)
                 /\ loop[t].r > DEADBAND =>
                        (/\ loop'[t].sent = Append(loop[t].sent, loop[t].target)
                         /\ last_cmd' = "offset")
          /\ (loop[t].pc = "count" /\ loop'[t].pc # "count") =>
                 (hops_done' = hops_done + 1 /\ loop'[t].i = loop[t].i + 1)]_vars

C8_Witness ==
    \E t \in Threads :
        /\ loop[t].pc = "count"
        /\ loop[t].r < DEADBAND
        /\ loop[t].skips = {"deadband"}
        /\ Len(loop[t].sent) = 1

\* Thread t has processed to its end a batch of 3 records of generation 0,
\* with no reset() since.
ThreeDone(t) ==
    /\ loop[t].pc = "ack"
    /\ loop[t].chunk_generation = 0
    /\ generation = 0
    /\ loop[t].nresults = 3
    /\ loop[t].i = 3

\* C9 as stated: after start() and a feed() of one chunk of generation 0 whose
\* batch has 3 records, the actuator has received 3 calls.
C9_ThreeCalls_AsStated ==
    \A t \in Threads : ThreeDone(t) => Len(loop[t].sent) = 3

\* C9 amended: when none of the 3 records was dropped for lag, suppressed
\* because the robot was not speaking or held back by the deadband, the
\* actuator has received 3 calls, at targets one hop apart, the first target
\* no earlier than base_ts + MOVEMENT_LATENCY; and no record is applied
\* before its target.
C9_ThreeCalls ==
    \A t \in Threads :
        /\ (ThreeDone(t) /\ loop[t].skips = {}) =>
               /\ Len(loop[t].sent) = 3
               /\ base_ts # NoTs
               /\ loop[t].sent[1] >= base_ts + MOVEMENT_LATENCY
               /\ loop[t].sent[2] = loop[t].sent[1] + HOP_DT
               /\ loop[t].sent[3] = loop[t].sent[2] + HOP_DT
        /\ loop[t].pc = "apply" => now >= loop[t].target

C9_Witness ==
    \E t \in Threads :
        /\ ThreeDone(t)
        /\ loop[t].skips = {}
        /\ Len(loop[t].sent) = 3

\* C10: after reset(), as long as no chunk of the new generation has passed
\* the staleness check, base_ts is unset and hops_done is 0, so that the first
\* such chunk takes a fresh base_ts and has its first record scheduled with
\* hops_done = 0.
C10_FreshSchedule ==
    (generation >= 1 /\ fresh) => (base_ts = NoTs /\ hops_done = 0)

\* C11: a stop() that is not the first stop() after start() (a second stop(), or
\* a stop() on a scheduler never started) returns without having sent a
\* command to the actuator.
C11_StopIdempotent ==
    [][(ctl = "stop_join" /\ ctl' = "idle" /\ life # "running") => ~restore_sent']_vars

\* C12: a reset() on a scheduler that was never fed (empty queue, no batch in
\* flight) returns without having sent a command to the actuator.
C12_ResetNoAudio ==
    [][(/\ ctl = "reset_sway" /\ ctl' = "idle"
        /\ nfeeds = 0 /\ audio_queue = <<>> /\ unfinished = 0) => ~restore_sent']_vars

\* C13: a reset() that lands in the middle of a batch is observed within one
\* hop: every generation check the loop makes after the increment (lines 345,
\* 373, 387) abandons the batch, and at most one record of the old batch is
\* passed to the actuator after the increment.
C13_AbandonWithinOneHop ==
    [][\A t \in Threads :
          /\ loop'[t].stale <= 1
          /\ (/\ loop[t].pc \in {"read", "sleep", "check"}
              /\ loop'[t] # loop[t]
              /\ ~Current(t)) => loop'[t].pc = "ack"]_vars

C13_Witness ==
    \E t \in Threads :
        /\ loop[t].pc = "ack"
        /\ loop[t].stale = 1
        /\ loop[t].i < loop[t].nresults
        /\ ~Current(t)

\* C14: reset() updates the shared tuple in one step: the step that increments
\* the generation also clears base_ts, zeroes hops_done and clears
\* robot_speaking, so that no reader under the state lock sees the new
\* generation with a field of the old one.
C14_ResetAtomic ==
    [][generation' # generation =>
          (base_ts' = NoTs /\ hops_done' = 0 /\ ~robot_speaking')]_vars

C14_Witness ==
    /\ ctl = "reset_drain"
    /\ generation = 1
    /\ base_ts = NoTs /\ hops_done = 0 /\ ~robot_speaking
    /\ \E t \in Threads : loop[t].pc = "apply" /\ loop[t].i > 0

\* C15: feed() never raises and never blocks: a started feed() can always
\* finish; a feed() of an undecodable argument leaves the queue and the shared
\* state as they are; a feed() of a valid one stamps the chunk with the
\* generation read under the lock and appends exactly that chunk to the queue.
C15_FeedTotal ==
    /\ [](feeder.pc = "stamped" => ENABLED FeedPut)
    /\ [][/\ feeder'.pc # "raised"
          /\ nfeeds' # nfeeds =>
                 /\ audio_queue' = audio_queue
                 /\ unfinished' = unfinished
                 /\ UNCHANGED shared
                 /\ feeder'.pc = "stamped" => feeder'.generation = generation
          /\ (feeder.pc = "stamped" /\ feeder'.pc # "stamped") =>
                 /\ audio_queue' = Append(audio_queue, feeder.generation)
                 /\ unfinished' = unfinished + 1
                 /\ UNCHANGED shared]_vars

C15_Witness ==
    /\ nfeeds = 1
    /\ feeder.pc = "idle"
    /\ generation = 0
    /\ life = "new"
    /\ audio_queue = <<>>
    /\ unfinished = 0

\* C18: hops_done never decreases between two generation increments: a step
\* lowers it only if it increments the generation, and the step that
\* increments the generation sets it to 0.
C18_HopsMonotone ==
    [][/\ hops_done' < hops_done => generation' = generation + 1
       /\ generation' # generation => hops_done' = 0]_vars

C18_Witness ==
    /\ generation = 1
    /\ hops_done = 0
    /\ \E t \in Threads : loop[t].pc = "count" /\ loop[t].i >= 2

\* C19: the generation never decreases and changes only in the locked block
\* of reset(), by exactly one; feed(), start(), stop(), set_robot_speaking()
\* and the dispatch loop leave it as it is.
C19_GenerationOnlyReset ==
    [][generation' # generation =>
          (generation' = generation + 1 /\ ctl = "idle" /\ ctl' = "reset_drain")]_vars

C19_Witness ==
    /\ generation = MaxResets
    /\ nfeeds = MaxFeeds
    /\ life = "stopped"
    /\ robot_speaking
    /\ \E t \in Threads : loop[t].pc = "exited"

\* Tier k of the robot is there to be attempted.
Available(rb, k) ==
    CASE k = 1 -> rb.compose # "absent"
      [] k = 2 -> rb.goto # "absent"
      [] k = 3 -> rb.joints \in {"ok", "raises"}

\* Tier k was attempted in call c.
Tried(c, k) == \E j \in 1..Len(c.tried) : c.tried[j] = k

\* Tier k was attempted in call c and raised.
Failed(c, k) ==
    /\ Tried(c, k)
    /\ CASE k = 1 -> c.robot.compose = "raises"
         [] k = 2 -> c.robot.goto = "raises"

\* C16: when tier 1 or tier 2 is attempted and raises, the adapter goes on to
\* attempt the next available tier, in the order 1, 2, 3.
C16_FallsThrough ==
    adapter # NoCall =>
        /\ (Failed(adapter, 1) /\ Available(adapter.robot, 2)) => Tried(adapter, 2)
        /\ (Failed(adapter, 1) /\ ~Available(adapter.robot, 2)
                               /\ Available(adapter.robot, 3)) => Tried(adapter, 3)
        /\ (Failed(adapter, 2) /\ Available(adapter.robot, 3)) => Tried(adapter, 3)

\* C17: a failing or absent actuator is never fatal: the call of
\* _apply_offsets made for a record returns to the loop, which counts the hop,
\* whatever the robot does; the thread ends only as it does with a sound
\* robot; and stop() and reset() return after the base-pose restore.
C17_ActuatorNeverFatal ==
    [][/\ \A t \in Threads :
            /\ (loop[t].pc = "apply" /\ loop'[t] # loop[t]) => loop'[t].pc = "count"
            /\ (loop[t].pc = "count" /\ loop'[t] # loop[t]) =>
                   (loop'[t].pc = "read" /\ hops_done' = hops_done + 1)
       /\ ctl \in {"stop_join", "reset_sway"} => ctl' \in {ctl, "idle"}]_vars

C17_Witness ==
    \E t \in Threads :
        /\ loop[t].fault
        /\ loop[t].pc = "ack"
        /\ loop[t].i = loop[t].nresults
        /\ Len(loop[t].sent) = 2
        /\ hops_done = loop[t].i
        /\ Current(t)
        /\ last_cmd # "offset"

C22_StopReturns == (ctl = "stop_join") ~> (ctl = "idle")

C22_Witness ==
    /\ ctl = "stop_join"
    /\ now = MaxTime
    /\ stop_event
    /\ \E t \in Threads :
          /\ loop[t].pc = "sleep"
          /\ loop[t].i = 1
          /\ loop[t].nresults = MaxBatch

\* C23: set_robot_speaking changes the speaking flag and nothing else: a step
\* that changes the flag without being the first step of reset() leaves the
\* generation, the anchor, the hop counter, the queue and the base pose alone.
C23_SpeakingOnly ==
    [][(robot_speaking' # robot_speaking /\ ctl' = ctl) =>
          /\ ctl = "idle"
          /\ UNCHANGED <<generation, base_ts, hops_done, audio_queue, unfinished,
                         base_head_pose, stop_event, thread, loop>>]_vars

C23_Witness ==
    /\ robot_speaking
    /\ base_ts # NoTs
    /\ hops_done >= 1
    /\ \E t \in Threads :
          /\ loop[t].pc = "apply"
          /\ "mute" \in loop[t].skips
          /\ Current(t)

\* C24: lag handling drops min(lag_hops, remaining - 1) records in one step,
\* never the last record of the batch: the records dropped are counted in
\* hops_done and nothing goes to the actuator, and the index of a batch
\* reaches its end only by a suppressed or a counted record.
C24_LagBound ==
    [][\A t \in Threads :
          /\ (loop[t].pc = "read" /\ loop'[t].pc = "drop") =>
                 /\ loop'[t].drop = Min(LagHops(now, loop'[t].target),
                                        loop[t].nresults - loop[t].i - 1)
                 /\ loop'[t].drop >= 1
          /\ (loop[t].pc = "drop" /\ loop'[t] # loop[t]) =>
                 /\ loop'[t].i = loop[t].i + loop[t].drop
                 /\ loop'[t].i <= loop[t].nresults - 1
                 /\ hops_done' = hops_done + loop[t].drop
                 /\ loop'[t].sent = loop[t].sent
                 /\ UNCHANGED <<last_cmd, last_disp>>
          /\ (/\ loop[t].i < loop[t].nresults
              /\ loop'[t].nresults = loop[t].nresults
              /\ loop'[t].i = loop[t].nresults) =>
                 (loop[t].pc \in {"suppress", "count"}
                  /\ loop[t].i = loop[t].nresults - 1)]_vars

C24_Witness ==
    \E t \in Threads :
        /\ loop[t].pc = "apply"
        /\ loop[t].nresults = 2
        /\ loop[t].i = 1
        /\ loop[t].lag0 >= 2 * HOP_DT
        /\ "lag" \in loop[t].skips
        /\ hops_done = 1
        /\ loop[t].sent = <<>>

\* C25: no record is passed to the actuator before its deadline: from the
\* last generation check to the call of _apply_offsets the clock is at or past
\* the target computed from the anchor and the hop count read for that record.
C25_NotBeforeDeadline ==
    \A t \in Threads :
        loop[t].pc \in {"check", "suppress", "apply"} => now >= loop[t].target

C25_Witness ==
    \E t \in Threads :
        /\ loop[t].pc = "apply"
        /\ Significant(loop[t].r)
        /\ loop[t].i = 1
        /\ Len(loop[t].sent) = 1
        /\ now = loop[t].target
        /\ loop[t].target = Target(base_ts, hops_done)

\* Thread p is about to read or write a field of the guarded tuple.
Touches(p) == \E s \in Here(p) : s.op \in {"read", "write"} /\ s.on \in Tuple

\* Thread p is inside a call that may block: a sleep, the engine, the robot.
Blocking(p) == \E s \in Here(p) : s.op = "call"

\* C26: every read and every write of generation, base_ts, hops_done and
\* robot_speaking is made by a thread that holds the state lock.
C26_TupleUnderLock ==
    \A p \in Procs : Touches(p) => held["state"] = p

\* C27: the state lock is never held across a sleep, an engine call or a
\* robot call: a thread inside time.sleep, sway.feed, sway.reset,
\* _apply_offsets or the base pose restore does not hold it.
C27_LockNotHeldAcross ==
    \A p \in Procs : Blocking(p) => held["state"] # p

C27_Witness ==
    /\ at["loop"] = "371"
    /\ at["feed"] = "69"
    /\ held["state"] = "feed"
    /\ at["ctl"] = "139"

\* C28: sway.feed of the dispatch loop and sway.reset of reset() never run at
\* the same time.
C28_EngineExclusive ==
    ~(at["loop"] = "338" /\ at["ctl"] = "436")

C28_Witness ==
    /\ at["loop"] = "338"
    /\ held["sway"] = "loop"
    /\ at["ctl"] = "435"

\* C29: a chunk that feed() stamped before a reset() and enqueued after the
\* drain is discarded by the staleness check: the thread that takes a chunk
\* whose stamp is not the current generation goes straight to task_done, and
\* neither step feeds the engine, writes base_ts or hops_done, or reaches the
\* actuator.
C29_StaleChunkDiscarded ==
    [][\A t \in Threads :
          /\ (/\ loop[t].pc = "loop"
              /\ audio_queue # <<>>
              /\ Head(audio_queue) # generation
              /\ loop'[t] # loop[t]) =>
                 /\ loop'[t].pc \in {"ack", "exited"}
                 /\ UNCHANGED <<shared, sway_lock, last_cmd, last_disp>>
          /\ (loop[t].pc = "ack" /\ loop'[t] # loop[t]) =>
                 /\ loop'[t].pc = "loop"
                 /\ UNCHANGED <<shared, sway_lock, last_cmd, last_disp>>]_vars

C29_Witness ==
    /\ ctl = "idle"
    /\ generation = 1
    /\ audio_queue = <<>>
    /\ unfinished = 1
    /\ base_ts = NoTs
    /\ hops_done = 0
    /\ last_disp.generation = NoTs
    /\ \E t \in Threads :
          /\ loop[t].pc = "ack"
          /\ loop[t].chunk_generation = 0
          /\ loop[t].skips = {"stale"}

\* C30: hops_done is incremented only on behalf of a batch of the current
\* generation: the thread whose step raises it holds a chunk whose stamp is
\* the generation.
C30_NoStaleCount ==
    [][\A t \in Threads :
          (hops_done' > hops_done /\ loop'[t] # loop[t]) => Current(t)]_vars

\* C31: base_ts is anchored only on behalf of the current generation: the
\* thread whose step sets base_ts holds a chunk whose stamp is the generation,
\* so a chunk that passed the staleness check before a reset() does not anchor
\* the schedule of the new generation.
C31_AnchorByCurrent ==
    [][\A t \in Threads :
          (base_ts = NoTs /\ base_ts' # NoTs /\ loop'[t] # loop[t]) => Current(t)]_vars

\* C32: once reset() has reset the engine, the engine is not fed a chunk of an
\* older generation: a thread inside sway.feed while no reset() is under way
\* holds a chunk whose stamp is the generation.
C32_EngineFedCurrent ==
    \A t \in Threads :
        (loop[t].pc = "feeding" /\ ctl \notin {"reset_drain", "reset_sway"}) =>
            Current(t)

\* C33: the captured base pose is for the restore of stop() and reset() only:
\* the dispatch thread, _apply_offsets included, never reads and never writes
\* base_head_pose.
C33_BasePoseOnlyRestored ==
    \A s \in Here("loop") : s.on # "base_head_pose"

\* Thread t has taken a chunk from the queue and not yet acknowledged it.
Holding(t) == loop[t].pc \notin {"unborn", "loop", "idle", "exited", "crashed"}

\* C34: every chunk put on the queue is taken by one consumer and acknowledged
\* once: the acknowledgements still owed are exactly the chunks in the queue
\* and the chunks in the hands of a thread, stale chunks and abandoned batches
\* included, and they never exceed the chunks put.
C34_AckedOnce ==
    /\ unfinished >= 0
    /\ unfinished = Len(audio_queue) + Cardinality({t \in Threads : Holding(t)})

C34_Witness ==
    /\ ctl = "reset_drain"
    /\ Len(audio_queue) = 1
    /\ unfinished = 2
    /\ \E t \in Threads :
          /\ loop[t].pc = "ack"
          /\ loop[t].i < loop[t].nresults
          /\ ~Current(t)

\* C35: within a batch hops_done advances with the index of the batch: as long
\* as no reset() intervenes, every step of the thread that holds the batch
\* raises hops_done by as much as it raises i (by the drop count for lagged
\* records, by one for a suppressed, a below-deadband and a dispatched record),
\* so that a batch of N records processed to its end advances hops_done by N.
C35_HopsFollowIndex ==
    [][\A t \in Threads :
          (/\ Holding(t)
           /\ loop[t].pc # "ack"
           /\ loop'[t] # loop[t]
           /\ generation' = generation) =>
              /\ hops_done' - hops_done = loop'[t].i - loop[t].i
              /\ loop'[t].i <= loop'[t].nresults
              /\ loop'[t].pc = "ack" /\ Current(t) => loop[t].i = loop[t].nresults]_vars

C35_Witness ==
    \E t \in Threads :
        /\ loop[t].pc = "ack"
        /\ Current(t)
        /\ loop[t].nresults = MaxBatch
        /\ loop[t].i = MaxBatch
        /\ hops_done = MaxBatch
        /\ {"lag", "mute"} \subseteq loop[t].skips
        /\ Len(loop[t].sent) = 1

\* The locks thread p holds.
Holds(p) == {l \in Locks : held[l] = p}

\* C36: no thread acquires one of the three locks while it holds another: a
\* thread holds at most one lock, and a thread that holds one is not at a
\* `with` statement, so no thread that holds a lock waits for a lock and the
\* locks cannot deadlock.
C36_NoNestedLocks ==
    \A p \in Procs :
        /\ Cardinality(Holds(p)) <= 1
        /\ Holds(p) # {} => \A s \in Here(p) : s.op # "acquire"

C36_Witness ==
    /\ held = [l \in Locks |-> CASE l = "state" -> "feed"
                                 [] l = "sway" -> "loop"
                                 [] l = "pose" -> "ctl"]
    /\ at["loop"] = "338"
    /\ at["ctl"] = "135"

\* Nothing of the current generation is in the scheduler and nothing of it was
\* dispatched: no feed() and no set_robot_speaking(True) took effect since the
\* last reset().
Quiet ==
    /\ ~robot_speaking
    /\ feeder.pc = "idle"
    /\ audio_queue = <<>>
    /\ \A t \in Threads : Holding(t) => ~Current(t)
    /\ generation \notin last_disp.gens

\* C37: when reset() has returned after restoring a captured base pose and
\* nothing was fed or said to be spoken since, the last command the actuator
\* received is that restore: no offset reaches the head after it.
C37_RestoreIsLast ==
    (ctl = "idle" /\ generation >= 1 /\ restore_sent /\ Quiet) => last_cmd = "restore"

\* C38: whenever ConversationTool has marked the robot as speaking, the
\* speaking flag of the HeadWobbler is true, so that the records of the deltas
\* it feeds are dispatched and not suppressed.
C38_SpeakingReachesWobbler ==
    conversation_speaking => robot_speaking

\* C39: while the scheduler is Running and the engine and the actuator return,
\* every chunk on the queue is eventually taken and acknowledged, by the loop
\* or by the drain of reset(): acknowledgements owed are eventually none,
\* unless stop() intervenes; and a thread that found the queue empty comes
\* back to the while test, it neither stalls nor ends there.
C39_ChunksAcknowledged ==
    /\ (life = "running" /\ unfinished > 0) ~> (unfinished = 0 \/ stop_event)
    /\ \A t \in Threads : (loop[t].pc = "idle") ~> (loop[t].pc = "loop")

C39_Witness ==
    /\ life = "running"
    /\ ~stop_event
    /\ generation = 1
    /\ audio_queue = <<1>>
    /\ unfinished = 1
    /\ \E t \in Threads : loop[t].pc = "idle" /\ now < loop[t].wake

=============================================================================
